---- MODULE Spec2Model ----
(***************************************************************************)
(* Constrained-mixture remodeling engine (core/models.py,                  *)
(* ConstrainedMixtureModel) as a state machine.                            *)
(*                                                                         *)
(* Real numbers are carried as fixed-point integers: the real value v is   *)
(* the integer v * Scale, rounded.  Arrays are functions over 0..n-1, as   *)
(* in the source (index 0 is the first grid time).  The parameter record   *)
(* is a function from key strings to values; an optional value (Python     *)
(* None or a number) is a sequence of length 0 or 1.                       *)
(***************************************************************************)
EXTENDS Integers, Sequences, FiniteSets, TLC

\* ------------------------------------------------------------------------
\* Bounds of the model
\* ------------------------------------------------------------------------
MaxPoints == 3
MaxCalls == 2

\* ------------------------------------------------------------------------
\* Fixed-point arithmetic standing for the float arithmetic of the source
\* ------------------------------------------------------------------------
Scale == 10 * 10 * 10 * 10

Abs(x) == IF x < 0 THEN -x ELSE x

\* a * b, rounded to the nearest unit; the operands are split so that no
\* intermediate product leaves the 32-bit range
Mul(a, b) ==
    LET ah == a \div Scale
        al == a % Scale
        bh == b \div Scale
        bl == b % Scale
    IN  ah * bh * Scale + ah * bl + al * bh + (al * bl + Scale \div 2) \div Scale

\* the same product for operands below 4.6, where a * b itself stays in range
MulSmall(a, b) == (a * b + Scale \div 2) \div Scale

DivPos(a, b) ==
    LET q == a \div b
        r == a % b
    IN  q * Scale + (r * Scale + b \div 2) \div b

\* a / b, rounded to the nearest unit (b # 0)
Div(a, b) == IF b < 0 THEN DivPos(-a, -b) ELSE DivPos(a, b)

\* np.exp for an argument <= 0: e^(-n) by repeated multiplication, e^(-f)
\* for the fractional part by the alternating series in Horner form
RECURSIVE ExpNegHorner(_, _)
ExpNegHorner(f, k) ==
    IF k > 9 THEN Scale
    ELSE Scale - MulSmall(f, ExpNegHorner(f, k + 1)) \div k

RECURSIVE ExpNegInt(_)
ExpNegInt(n) == IF n = 0 THEN Scale ELSE MulSmall(3679, ExpNegInt(n - 1))

RECURSIVE ExpPosHorner(_, _)
ExpPosHorner(f, k) ==
    IF k > 9 THEN Scale
    ELSE Scale + MulSmall(f, ExpPosHorner(f, k + 1)) \div k

RECURSIVE ExpPosInt(_)
ExpPosInt(n) == IF n = 0 THEN Scale ELSE Mul(27183, ExpPosInt(n - 1))

Exp(x) ==
    IF x < 0
    THEN MulSmall(ExpNegInt((-x) \div Scale), ExpNegHorner((-x) % Scale, 1))
    ELSE Mul(ExpPosInt(x \div Scale), ExpPosHorner(x % Scale, 1))

\* natural logarithm of x > 0: halve or double into [2/3, 4/3], then
\* 2 * atanh((x-1)/(x+1)) by its series
LnSeries(x) ==
    LET z  == Div(x - Scale, x + Scale)
        z2 == Mul(z, z)
    IN  2 * Mul(z, Scale + Mul(z2, Scale \div 3 + Mul(z2, Scale \div 5 + Mul(z2, Scale \div 7))))

RECURSIVE Ln(_)
Ln(x) ==
    IF 3 * x > 4 * Scale THEN Ln((x + 1) \div 2) + 6931
    ELSE IF 3 * x < 2 * Scale THEN Ln(2 * x) - 6931
    ELSE LnSeries(x)

\* x ** e of the source (x >= 0)
Pow(x, e) == IF x <= 0 THEN 0 ELSE Exp(Mul(e, Ln(x)))

\* np.pi
Pi == 31416

\* np.sin for an argument >= 0, reduced to [0, pi/2]
SinQuarter(x) ==
    LET x2 == Mul(x, x)
    IN  Mul(x, Scale - Mul(x2, Scale - Mul(x2, Scale - Mul(x2, Scale - x2 \div 72) \div 42) \div 20) \div 6)

Sin(x) ==
    LET r == x % (2 * Pi)
        h == IF r >= Pi THEN r - Pi ELSE r
        q == IF 2 * h > Pi THEN Pi - h ELSE h
    IN  IF r >= Pi THEN -SinQuarter(q) ELSE SinQuarter(q)

\* ------------------------------------------------------------------------
\* Parameter records
\* ------------------------------------------------------------------------
\* Python None and a present number, for the one field that may be None
None == <<>>
Some(v) == <<v>>

\* the real number w + m/10000 as a fixed-point value
Fx(w, m) == w * Scale + m

\* {**d, **p}: the keys of both, those of p winning
DictMerge(d, p) == p @@ d

EmptyDict == [k \in {} |-> 0]

\* default_params of _validate_and_complete_params
default_params ==
    [c_c |-> Fx(1, 0), c_e |-> Fx(50, 0), c_g |-> Fx(10, 0),
     fi0_c |-> Fx(0, 7500), fi0_e |-> Fx(0, 500), fi0_g |-> Fx(0, 2000),
     k_cplus |-> Fx(1, 0), k_cminus |-> Fx(1, 0),
     k_eplus |-> Fx(1, 0), k_eminus |-> Fx(1, 0),
     lambda0_c |-> Fx(1, 500), lambda0_e |-> Fx(1, 1000),
     lambda_roof |-> Fx(1, 1000), a |-> Fx(0, 1000),
     K_cplus |-> Fx(0, 400), sigma0_c |-> None,
     alpha_c |-> Fx(0, 100), gamma |-> Fx(1, 0),
     t_end |-> Fx(10, 0), n_points |-> 1000]

\* np.linspace(0, t_end, n): n evenly spaced times, the last one t_end
linspace(t_end, n) ==
    [i \in 0..(n - 1) |->
        IF n > 1 /\ i = n - 1 THEN t_end
        ELSE IF n > 1 THEN (2 * i * t_end + (n - 1)) \div (2 * (n - 1))
        ELSE 0]

len(arr) == Cardinality(DOMAIN arr)

\* ------------------------------------------------------------------------
\* Constituent kinetics and stress response (P is self.params)
\* ------------------------------------------------------------------------
q_c(P, tau, t) == Exp(-Mul(P.k_cminus, t - tau))

q_e(P, tau, t) == Exp(-Mul(P.k_eminus, t - tau))

sigma_c_roof(P, lambda_) ==
    LET l2 == Mul(lambda_, lambda_)
    IN  Mul(Mul(Mul(4 * P.c_c, l2), l2 - Scale),
            Exp(Mul(P.alpha_c, Mul(l2 - Scale, l2 - Scale))))

\* 4 * c_e * lambda**2 * (lambda**2 - 1), written inline in the source
sigma_e_roof(P, lambda_) ==
    LET l2 == Mul(lambda_, lambda_)
    IN  Mul(Mul(4 * P.c_e, l2), l2 - Scale)

\* k_cplus / k_cminus is a division of two Python floats: it raises
\* ZeroDivisionError when k_cminus is 0 and the guard did not return first
Q_c_raises(P) == ~(P.k_cminus = 0 /\ P.k_cplus = 0) /\ P.k_cminus = 0

Q_c(P, t) ==
    IF P.k_cminus = 0 /\ P.k_cplus = 0 THEN Scale
    ELSE Exp(-Mul(P.k_cminus, t))
         + Mul(Div(P.k_cplus, P.k_cminus), Scale - Exp(-Mul(P.k_cminus, t)))

Q_e_raises(P) == ~(P.k_eminus = 0 /\ P.k_eplus # 0) /\ P.k_eminus = 0

Q_e(P, t) ==
    IF P.k_eminus = 0 /\ P.k_eplus # 0 THEN Scale
    ELSE Exp(-Mul(P.k_eminus, t))
         + Mul(Div(P.k_eplus, P.k_eminus), Scale - Exp(-Mul(P.k_eminus, t)))

calc_J_c(P, t) == Mul(P.Jc0, Q_c(P, t))

calc_J_e(P, t) == Mul(P.Je0, Q_e(P, t))

\* 1/(1 + 2*gamma)
GrowthExponent(P) == Div(Scale, Scale + 2 * P.gamma)

G_c(P, t) ==
    IF t = 0 THEN Pow(P.Jc0, GrowthExponent(P))
    ELSE Pow(calc_J_c(P, t), GrowthExponent(P))

G_e(P, t) ==
    IF t = 0 THEN Pow(P.Je0, GrowthExponent(P))
    ELSE Pow(calc_J_e(P, t), GrowthExponent(P))

calc_sigma_g(P, t, lambda_t) ==
    LET l2 == Mul(lambda_t, lambda_t)
    IN  Mul(Mul(Mul(Div(P.Jg0, P.J0), 4 * P.c_g), l2), l2 - Scale)

\* the points at which the rule below samples an integrand over [a, b]
quad_nodes(a, b) ==
    LET h == (b - a) \div 4
    IN  {a, a + h, a + 2 * h, a + 3 * h, b}

\* integrate.quad(f, a, b): the integral of f over [a, b], here by the
\* composite Simpson rule on four panels, f being given by its values at
\* quad_nodes(a, b); 0 on an empty interval
quad(f, a, b) ==
    IF a = b THEN 0
    ELSE LET h == (b - a) \div 4
             s == f[a] + 4 * f[a + h] + 2 * f[a + 2 * h] + 4 * f[a + 3 * h] + f[b]
         IN  Mul(h, s) \div 3

\* ------------------------------------------------------------------------
\* Protocol evaluation: the base (non-feedback) result of each protocol
\* ------------------------------------------------------------------------
\* every protocol calls _Q_c then _Q_e at the first grid time
protocol_raises(P) == len(P.time) > 0 /\ (Q_c_raises(P) \/ Q_e_raises(P))

\* the arrays of a result, filled from the per-index values of the loop
columns(t, rows, keys) ==
    [k \in keys |-> IF k = "time" THEN t ELSE [i \in DOMAIN t |-> rows[i][k]]]
        @@ EmptyDict

\* the per-index values of a protocol loop, one record per grid index
loop_rows(rows) == rows @@ EmptyDict

BaseKeys == {"time", "lambda", "sigma_c", "sigma_e", "sigma_g", "J_c", "J_e"}

\* lines 95-101: one pass of the loop of _constant_protocol
constant_row(P, ti, lambda_t, J_c, J_e) ==
    [lambda |-> lambda_t,
     J_c |-> J_c,
     J_e |-> J_e,
     sigma_c |-> Mul(sigma_c_roof(P, lambda_t), J_c),
     sigma_e |-> Mul(sigma_e_roof(P, lambda_t), J_e),
     sigma_g |-> calc_sigma_g(P, ti, lambda_t)]

constant_protocol(P) ==
    columns(P.time,
            loop_rows([i \in DOMAIN P.time |->
                constant_row(P, P.time[i], P.lambda_roof,
                             Mul(P.Jc0, Q_c(P, P.time[i])),
                             Mul(P.Je0, Q_e(P, P.time[i])))]),
            BaseKeys)

\* line 109: the stretch of the linear protocol
linear_stretch(P, t) == Mul(P.lambda_roof, Scale + Mul(P.a, t))

\* lines 119-123: the integrands of _linear_protocol at output time ti,
\* whose stretch is lambda_t
linear_integrand_c(P, tau, ti, lambda_t) ==
    Mul(q_c(P, tau, ti), sigma_c_roof(P, lambda_t))

linear_integrand_e(P, tau, ti, lambda_t) ==
    Mul(q_e(P, tau, ti), sigma_e_roof(P, lambda_t))

\* lines 118-138: one pass of the loop of _linear_protocol
linear_row(P, ti, lambda_t, J_c, J_e) ==
    [lambda |-> lambda_t,
     J_c |-> J_c,
     J_e |-> J_e,
     sigma_c |->
         Mul(Mul(Div(P.Jc0, P.J0), sigma_c_roof(P, lambda_t)), q_c(P, 0, ti))
         + Mul(Div(P.j_cplus, J_c),
               quad([tau \in quad_nodes(0, ti) |-> linear_integrand_c(P, tau, ti, lambda_t)], 0, ti)),
     sigma_e |->
         Mul(Mul(Div(P.Je0, P.J0), sigma_e_roof(P, lambda_t)), q_e(P, 0, ti))
         + Mul(Div(P.j_eplus, J_e),
               quad([tau \in quad_nodes(0, ti) |-> linear_integrand_e(P, tau, ti, lambda_t)], 0, ti)),
     sigma_g |-> calc_sigma_g(P, ti, lambda_t)]

linear_protocol(P) ==
    columns(P.time,
            loop_rows([i \in DOMAIN P.time |->
                linear_row(P, P.time[i], linear_stretch(P, P.time[i]),
                           Mul(P.Jc0, Q_c(P, P.time[i])),
                           Mul(P.Je0, Q_e(P, P.time[i])))]),
            BaseKeys)

\* lambda_roof * (1 + a * sin(omega * t)**2)
cyclic_stretch(P, omega, t) ==
    Mul(P.lambda_roof, Scale + Mul(P.a, Mul(Sin(Mul(omega, t)), Sin(Mul(omega, t)))))

\* line 158: the frequency _cyclic_protocol uses
cyclic_omega == Pi

\* the natural stretch lambda0 * (lambda_t / lambda_tau) * G_ratio
natural_stretch(P, lambda0, lambda_t, lambda_tau, G_tau, G_ti) ==
    Mul(Mul(lambda0, Div(lambda_t, lambda_tau)),
        Pow(Div(G_tau, G_ti), GrowthExponent(P)))

\* lines 169-179: the integrands of _cyclic_protocol
cyclic_integrand_c(P, tau, ti, lambda_t, G_ti) ==
    Mul(q_c(P, tau, ti),
        sigma_c_roof(P, natural_stretch(P, P.lambda0_c, lambda_t,
                                        cyclic_stretch(P, cyclic_omega, tau),
                                        G_c(P, tau), G_ti)))

cyclic_integrand_e(P, tau, ti, lambda_t, G_ti) ==
    Mul(q_e(P, tau, ti),
        sigma_e_roof(P, natural_stretch(P, P.lambda0_e, lambda_t,
                                        cyclic_stretch(P, cyclic_omega, tau),
                                        G_e(P, tau), G_ti)))

\* lines 184-192: collagen stress at output time ti
cyclic_sigma_c(P, ti, lambda_t, J_total, G_ti) ==
    Mul(Mul(Div(P.Jc0, P.J0),
            sigma_c_roof(P, natural_stretch(P, P.lambda0_c, lambda_t, P.lambda_roof,
                                            G_c(P, 0), G_ti))),
        q_c(P, 0, ti))
    + Mul(Div(P.j_cplus, J_total),
          quad([tau \in quad_nodes(0, ti) |-> cyclic_integrand_c(P, tau, ti, lambda_t, G_ti)], 0, ti))

\* lines 194-202: elastin stress at output time ti
cyclic_sigma_e(P, ti, lambda_t, J_total, G_ti) ==
    Mul(Mul(Div(P.Je0, P.J0),
            sigma_e_roof(P, natural_stretch(P, P.lambda0_e, lambda_t, P.lambda_roof,
                                            G_e(P, 0), G_ti))),
        q_e(P, 0, ti))
    + Mul(Div(P.j_eplus, J_total),
          quad([tau \in quad_nodes(0, ti) |-> cyclic_integrand_e(P, tau, ti, lambda_t, G_ti)], 0, ti))

\* line 210, per index: the total stress _cyclic_protocol stores itself
cyclic_sum(r) == DictMerge(r, [sigma_total |-> r.sigma_c + r.sigma_e + r.sigma_g])

\* lines 162-204: one pass of the loop of _cyclic_protocol
cyclic_row(P, ti, lambda_t, J_c, J_e) ==
    cyclic_sum([lambda |-> lambda_t,
                J_c |-> J_c,
                J_e |-> J_e,
                J_total |-> J_c + J_e + P.Jg0,
                sigma_c |-> cyclic_sigma_c(P, ti, lambda_t, J_c + J_e + P.Jg0, G_c(P, ti)),
                sigma_e |-> cyclic_sigma_e(P, ti, lambda_t, J_c + J_e + P.Jg0, G_e(P, ti)),
                sigma_g |-> calc_sigma_g(P, ti, lambda_t)])

cyclic_protocol(P) ==
    columns(P.time,
            loop_rows([i \in DOMAIN P.time |->
                cyclic_row(P, P.time[i], cyclic_stretch(P, cyclic_omega, P.time[i]),
                           Mul(P.Jc0, Q_c(P, P.time[i])),
                           Mul(P.Je0, Q_e(P, P.time[i])))]),
            BaseKeys \cup {"J_total", "sigma_total"})

\* ------------------------------------------------------------------------
\* State
\* ------------------------------------------------------------------------
VARIABLES
    callerRec,             \* the parameter record the caller passes to __init__
    attrs,                 \* the instance attributes that exist on self
    params,                \* self.params
    results,               \* self.results
    all_protocol_results,  \* self.all_protocol_results
    pc,                    \* position of the control flow
    call,                  \* the entry point in progress or last finished
    queue,                 \* protocols simulate_all_protocols has still to run
    work,                  \* the local `results` of the running simulate
    fb,                    \* the locals of _apply_mechanical_feedback
    warnings,              \* indices printed as "convergence not reached"
    visits,                \* indices committed by the feedback loop, in order
    outcome,               \* how the last finished call ended
    returned,              \* what each finished call has returned, by its arguments
    ncalls                 \* number of entry-point calls made

vars == <<callerRec, attrs, params, results, all_protocol_results, pc, call,
          queue, work, fb, warnings, visits, outcome, returned, ncalls>>

\* max_iter of the feedback loop
MaxIter == 20

\* the keys of protocol_funcs in simulate
protocol_funcs == {"constant", "linear", "cyclic"}

\* a dispatch that runs some protocol whatever the identifier is
dispatch_falls_back(protocol) == FALSE

\* lines 67-68 of simulate: `if protocol not in protocol_funcs: raise ValueError`
dispatch_raises(protocol) == protocol \notin protocol_funcs

\* protocol_funcs[protocol]()
run_protocol(P, protocol) ==
    IF protocol = "constant" THEN constant_protocol(P)
    ELSE IF protocol = "linear" THEN linear_protocol(P)
    ELSE cyclic_protocol(P)

\* a protocol list that leaves the last protocol out
protocols_without_cyclic == <<"constant", "linear">>

\* the list of simulate_all_protocols
protocols == <<"constant", "linear", "cyclic">>

\* protocol identifiers a caller may pass to simulate
ProtocolIds == protocol_funcs \cup {"ramp"}

NoCall == [op |-> "none", protocol |-> "none", feedback |-> FALSE]

NoFb == [i |-> 0, iter |-> 0, converged |-> FALSE,
         sigma_prev |-> 0, J_prev |-> 0, sigma_new |-> 0, J_new |-> 0,
         sigma0_c |-> 0, sigma_c_fb |-> EmptyDict, J_c_fb |-> EmptyDict]

\* ------------------------------------------------------------------------
\* Records a caller constructs the engine with
\* ------------------------------------------------------------------------
\* the fields the GUI form always supplies that the defaults lack or leave None
FormRecord(protocol, epsilon, K_cplus, t_end) ==
    [protocol |-> protocol, sigma0_c |-> Some(Fx(1, 0)), epsilon |-> epsilon,
     K_cplus |-> K_cplus, t_end |-> t_end, n_points |-> MaxPoints]

\* a record that leaves out the tolerance and the protocol, as a script would
ScriptRecord(t_end) ==
    [sigma0_c |-> Some(Fx(1, 0)), t_end |-> t_end, n_points |-> MaxPoints]

CallerRecords ==
    {EmptyDict, [sigma0_c |-> None, n_points |-> MaxPoints]}
    \cup {ScriptRecord(Fx(1, 0)),
          DictMerge(ScriptRecord(Fx(1, 0)), [epsilon |-> Fx(0, 1)]),
          DictMerge(ScriptRecord(Fx(1, 0)), [a |-> 0]),
          DictMerge(ScriptRecord(Fx(1, 0)), [a |-> -Fx(0, 1000)]),
          DictMerge(ScriptRecord(Fx(1, 0)), [k_cminus |-> 0]),
          DictMerge(ScriptRecord(Fx(1, 0)), [k_eminus |-> 0]),
          DictMerge(ScriptRecord(Fx(1, 0)), [k_cplus |-> 0, k_cminus |-> 0]),
          DictMerge(ScriptRecord(Fx(1, 0)), [k_eplus |-> 0, k_eminus |-> 0])}
    \cup {FormRecord("constant", Fx(0, 1), Fx(0, 400), Fx(1, 0)),
          FormRecord("constant", Fx(0, 1), 0, Fx(1, 0)),
          FormRecord("linear", Fx(0, 1), 0, Fx(1, 0)),
          FormRecord("cyclic", 0, Fx(0, 400), Fx(1, 0)),
          DictMerge(FormRecord("cyclic", Fx(0, 1), Fx(0, 400), Fx(1, 0)),
                    [omega |-> Pi \div 2])}

Init ==
    /\ callerRec \in CallerRecords
    /\ attrs = {}
    /\ params = EmptyDict
    /\ results = EmptyDict
    /\ all_protocol_results = EmptyDict
    /\ pc = "new"
    /\ call = NoCall
    /\ queue = <<>>
    /\ work = EmptyDict
    /\ fb = NoFb
    /\ warnings = <<>>
    /\ visits = <<>>
    /\ outcome = "none"
    /\ returned = EmptyDict
    /\ ncalls = 0

\* ------------------------------------------------------------------------
\* Construct: ConstrainedMixtureModel.__init__
\* ------------------------------------------------------------------------
\* the record before the homeostatic stress is settled (lines 32-40)
merged_params(rec) ==
    LET cp == DictMerge(default_params, rec)
    IN  DictMerge(cp, [time |-> linspace(cp.t_end, cp.n_points),
                       J0 |-> Fx(1, 0),
                       Jc0 |-> cp.fi0_c,
                       Je0 |-> cp.fi0_e,
                       Jg0 |-> cp.fi0_g])

\* a merge that writes the defaults and derived fields into the caller's dict
caller_record_updated(rec) == merged_params(rec)

\* line 32: {**default_params, **(params or {})} is a new dict, and nothing
\* is assigned to the dict the caller passed
caller_record_after(rec) == rec

\* self._sigma_c_roof reads self.params, which __init__ assigns only after
\* _validate_and_complete_params has returned
validate_raises(rec, self_attrs) ==
    merged_params(rec).sigma0_c = None /\ "params" \notin self_attrs

validate_and_complete_params(rec, self_params) ==
    LET cp == merged_params(rec)
    IN  IF cp.sigma0_c = None
        THEN DictMerge(cp, [sigma0_c |->
                 Some(Mul(Div(cp.Jc0, cp.J0), sigma_c_roof(self_params, cp.lambda0_c)))])
        ELSE cp

\* lines 11-14 of __init__
with_deposition_flux(cp) ==
    LET c1 == IF "j_cplus" \in DOMAIN cp THEN cp
              ELSE DictMerge(cp, [j_cplus |-> Mul(cp.k_cplus, cp.Jc0)])
    IN  IF "j_eplus" \in DOMAIN c1 THEN c1
        ELSE DictMerge(c1, [j_eplus |-> Mul(c1.k_eplus, c1.Je0)])

Construct ==
    /\ pc = "new"
    /\ IF validate_raises(callerRec, attrs)
       THEN /\ outcome' = "AttributeError"
            /\ pc' = "failed"
            /\ UNCHANGED <<attrs, params, results, all_protocol_results>>
       ELSE /\ params' = with_deposition_flux(
                             validate_and_complete_params(callerRec, params))
            /\ results' = EmptyDict
            /\ all_protocol_results' = EmptyDict
            /\ attrs' = {"params", "results", "all_protocol_results"}
            /\ outcome' = "ok"
            /\ pc' = "idle"
    /\ call' = [op |-> "construct", protocol |-> "none", feedback |-> FALSE]
    /\ callerRec' = caller_record_after(callerRec)
    /\ UNCHANGED <<queue, work, fb, warnings, visits, returned, ncalls>>

\* ------------------------------------------------------------------------
\* RunProtocol: ConstrainedMixtureModel.simulate
\* ------------------------------------------------------------------------
\* results.get(key, 0) + ... over the arrays of a result
get(res, key, i) == IF key \in DOMAIN res THEN res[key][i] ELSE 0

\* an aggregate that is kept when the protocol has already stored one
J_total_kept(P, res) ==
    IF "J_total" \in DOMAIN res THEN res.J_total
    ELSE [i \in DOMAIN res.time |-> get(res, "J_c", i) + get(res, "J_e", i) + P.Jg0]

\* lines 74-75 of simulate: the two aggregates, recomputed from the series
\* the result holds at that point
J_total_series(P, res) ==
    [i \in DOMAIN res.time |-> get(res, "J_c", i) + get(res, "J_e", i) + P.Jg0]

sigma_total_series(res) ==
    [i \in DOMAIN res.time |->
        get(res, "sigma_c", i) + get(res, "sigma_e", i) + get(res, "sigma_g", i)]

with_totals(P, res) ==
    DictMerge(res, [J_total |-> J_total_series(P, res),
                    sigma_total |-> sigma_total_series(res)])

\* an exception that leaves the unfinished local result in self.results
Raise_stores_partial(err) ==
    /\ outcome' = err
    /\ pc' = "idle"
    /\ queue' = <<>>
    /\ work' = EmptyDict
    /\ fb' = NoFb
    /\ results' = work
    /\ UNCHANGED <<all_protocol_results, returned>>

\* an exception leaves simulate (and simulate_all_protocols, which does not
\* catch it): nothing is assigned to self.results
Raise(err) ==
    /\ outcome' = err
    /\ pc' = "idle"
    /\ queue' = <<>>
    /\ work' = EmptyDict
    /\ fb' = NoFb
    /\ UNCHANGED <<results, all_protocol_results, returned>>

\* lines 74-78 of simulate, then the return to the caller: either the user
\* of simulate or the loop of simulate_all_protocols (line 56)
Deliver(c, final) ==
    /\ results' = final
    /\ work' = EmptyDict
    /\ fb' = NoFb
    /\ IF c.op = "simulate"
       THEN /\ outcome' = "ok"
            /\ pc' = "idle"
            /\ returned' = DictMerge(returned, <<c.protocol, c.feedback>> :> final)
            /\ UNCHANGED <<all_protocol_results, queue>>
       ELSE /\ all_protocol_results' =
                   DictMerge(all_protocol_results, c.protocol :> final)
            /\ queue' = Tail(queue)
            /\ pc' = "all_next"
            /\ UNCHANGED <<outcome, returned>>

Return(c, res) == Deliver(c, with_totals(params, res))

\* lines 229-233: the locals of the outer loop at index i
fb_enter_index(f, res, i) ==
    [f EXCEPT !.i = i, !.iter = 0, !.converged = FALSE,
              !.sigma_prev = IF i \in DOMAIN res.time THEN res.sigma_c[i] ELSE 0,
              !.J_prev = IF i \in DOMAIN res.time THEN res.J_c[i] ELSE 0]

\* a prologue that leaves index 0 of the two series at zero
fb_prologue_unseeded(P, res) ==
    LET n == len(P.time)
    IN  [NoFb EXCEPT !.sigma_c_fb = [i \in 0..(n - 1) |-> 0],
                     !.J_c_fb = [i \in 0..(n - 1) |-> 0],
                     !.sigma0_c = res.sigma_c[0]]

\* lines 215-226: the locals of _apply_mechanical_feedback before its loop
fb_prologue(P, res) ==
    LET n == len(P.time)
    IN  [NoFb EXCEPT !.sigma_c_fb = [i \in 0..(n - 1) |-> IF i = 0 THEN res.sigma_c[0] ELSE 0],
                     !.J_c_fb = [i \in 0..(n - 1) |-> IF i = 0 THEN P.Jc0 ELSE 0],
                     !.sigma0_c = res.sigma_c[0]]

\* lines 72-78 of simulate, up to the first iteration of the feedback loop
simulate_rest(c, res) ==
    IF ~c.feedback
    THEN Return(c, res)
    ELSE IF len(params.time) = 0
    THEN Raise("IndexError")
    ELSE IF "epsilon" \notin DOMAIN params
    THEN Raise("KeyError")
    ELSE /\ work' = res
         /\ fb' = fb_enter_index(fb_prologue(params, res), res, 1)
         /\ pc' = IF len(params.time) > 1 THEN "fb_iter" ELSE "fb_done"
         /\ UNCHANGED <<results, all_protocol_results, outcome, returned, queue>>

\* lines 61-70 of simulate: dispatch and protocol evaluation
simulate_body(c) ==
    IF dispatch_raises(c.protocol)
    THEN Raise("ValueError") /\ UNCHANGED <<warnings, visits>>
    ELSE /\ warnings' = <<>>
         /\ visits' = <<>>
         /\ IF protocol_raises(params)
            THEN Raise("ZeroDivisionError")
            ELSE simulate_rest(c, run_protocol(params, c.protocol))

Simulate(protocol, feedback) ==
    /\ pc = "idle"
    /\ ncalls < MaxCalls
    /\ ncalls' = ncalls + 1
    /\ call' = [op |-> "simulate", protocol |-> protocol, feedback |-> feedback]
    /\ simulate_body(call')
    /\ UNCHANGED <<callerRec, attrs, params>>

\* ------------------------------------------------------------------------
\* The mechanical feedback solver: _apply_mechanical_feedback
\* ------------------------------------------------------------------------
\* lines 248-253: the stretch at grid time tj, chosen by params['protocol']
feedback_stretch(P, tj) ==
    IF P.protocol = "constant" THEN P.lambda_roof
    ELSE IF P.protocol = "linear" THEN Mul(P.lambda_roof, Scale + Mul(P.a, tj))
    ELSE cyclic_stretch(P, Pi, tj)

RECURSIVE SumUpTo(_, _)
SumUpTo(f, j) == IF j = 0 THEN 0 ELSE SumUpTo(f, j - 1) + f[j]

\* lines 236-237: the feedback factor of one pass, from the guess f.sigma_prev
\* and the local sigma0_c, which line 224 sets to sigma_c_fb[0]
feedback_factor(P, f) ==
    Scale + Mul(P.K_cplus, Div(f.sigma_prev, f.sigma0_c) - Scale)

\* lines 236-267: one pass of the fixed-point loop at index f.i, giving the
\* new estimates from the guess (f.sigma_prev, f.J_prev)
fb_estimate(P, res, f) ==
    LET t == P.time
        i == f.i
        ti == t[i]
        factor == feedback_factor(P, f)
        dt(j) == t[j] - t[j - 1]
        J_at(j) == IF j < i THEN f.J_c_fb[j] ELSE f.J_prev
        weight(j) == Mul(Mul(J_at(j), P.k_cplus), factor)
        term_sigma(j) ==
            Mul(Mul(weight(j), sigma_c_roof(P, feedback_stretch(P, t[j]))),
                q_c(P, t[j], ti))
        term_J(j) == Mul(weight(j), q_c(P, t[j], ti))
        integral_sigma ==
            SumUpTo([j \in 1..i |-> Mul(Mul(Scale \div 2, dt(j)), term_sigma(j))], i)
        integral_J ==
            SumUpTo([j \in 1..i |-> Mul(Mul(Scale \div 2, dt(j)), term_J(j))], i)
        J_total == f.J_prev + res.J_e[i] + P.Jg0
    IN  [sigma_new |->
             Mul(Mul(Div(P.Jc0, P.J0), sigma_c_roof(P, feedback_stretch(P, ti))),
                 q_c(P, 0, ti))
             + Mul(Div(Scale, J_total), integral_sigma),
         J_new |-> Mul(P.Jc0, q_c(P, 0, ti)) + integral_J]

\* lines 269-270
meets_tolerance(P, f, est) ==
    /\ Abs(est.sigma_new - f.sigma_prev) < P.epsilon
    /\ Abs(est.J_new - f.J_prev) < P.epsilon

\* lines 269-275: break on convergence, else the estimate becomes the guess
fb_pass(est) ==
    LET g == [fb EXCEPT !.sigma_new = est.sigma_new,
                        !.J_new = est.J_new,
                        !.iter = fb.iter + 1]
    IN  IF meets_tolerance(params, fb, est)
        THEN /\ fb' = [g EXCEPT !.converged = TRUE]
             /\ pc' = "fb_after"
        ELSE /\ fb' = [g EXCEPT !.sigma_prev = est.sigma_new,
                                !.J_prev = est.J_new]
             /\ pc' = IF g.iter < MaxIter THEN "fb_iter" ELSE "fb_after"

\* one iteration of `for _ in range(max_iter)` (lines 235-275)
FbIterate ==
    /\ pc = "fb_iter"
    /\ IF "protocol" \notin DOMAIN params
       THEN Raise("KeyError") /\ UNCHANGED <<warnings, visits>>
       ELSE /\ fb_pass(fb_estimate(params, work, fb))
            /\ UNCHANGED <<results, all_protocol_results, queue, work,
                           outcome, returned, warnings, visits>>
    /\ UNCHANGED <<callerRec, attrs, params, call, ncalls>>

\* a warning printed for every index, whether or not the loop broke out
warns_always(f) == TRUE

\* line 277: the warning is printed when the loop ended without a break
warns(f) == ~f.converged

\* a commit that keeps an estimate only when the loop converged
committed_if_converged(f) ==
    IF f.converged THEN [sigma |-> f.sigma_new, J |-> f.J_new]
    ELSE [sigma |-> 0, J |-> 0]

\* lines 279-280: sigma_new and J_new as the loop left them are stored
committed(f) == [sigma |-> f.sigma_new, J |-> f.J_new]

\* lines 277-280, then the head of the outer loop for the next index
FbCommit ==
    /\ pc = "fb_after"
    /\ warnings' = IF warns(fb) THEN Append(warnings, fb.i) ELSE warnings
    /\ visits' = Append(visits, [i |-> fb.i, iter |-> fb.iter,
                                 converged |-> fb.converged,
                                 sigma |-> fb.sigma_new, J |-> fb.J_new])
    /\ LET g == [fb EXCEPT !.sigma_c_fb[fb.i] = committed(fb).sigma,
                           !.J_c_fb[fb.i] = committed(fb).J]
       IN  /\ fb' = fb_enter_index(g, work, fb.i + 1)
           /\ pc' = IF fb.i + 1 < len(params.time) THEN "fb_iter" ELSE "fb_done"
    /\ UNCHANGED <<callerRec, attrs, params, results, all_protocol_results,
                   call, queue, work, outcome, returned, ncalls>>

\* a replacement that writes the corrected stress over the elastin stress too
feedback_result_over_elastin(res, f) ==
    DictMerge(res, [sigma_c |-> f.sigma_c_fb, J_c |-> f.J_c_fb,
                    sigma_e |-> f.sigma_c_fb])

\* a replacement that installs the corrected volume but not the stress
feedback_result_keeps_stress(res, f) == DictMerge(res, [J_c |-> f.J_c_fb])

\* lines 282-286: the collagen series of the base result are replaced
feedback_result(res, f) ==
    LET r == DictMerge(res, [sigma_c |-> f.sigma_c_fb, J_c |-> f.J_c_fb])
    IN  DictMerge(r, [sigma_total |->
            [i \in DOMAIN r.time |-> f.sigma_c_fb[i] + r.sigma_e[i] + r.sigma_g[i]]])

\* the feedback solver returns to simulate, which finishes (lines 74-78)
FbReturn ==
    /\ pc = "fb_done"
    /\ Return(call, feedback_result(work, fb))
    /\ UNCHANGED <<callerRec, attrs, params, call, warnings, visits, ncalls>>

\* ------------------------------------------------------------------------
\* RunAllProtocols: ConstrainedMixtureModel.simulate_all_protocols
\* ------------------------------------------------------------------------
\* lines 52-53
SimulateAll(feedback) ==
    /\ pc = "idle"
    /\ ncalls < MaxCalls
    /\ ncalls' = ncalls + 1
    /\ call' = [op |-> "simulate_all", protocol |-> "none", feedback |-> feedback]
    /\ all_protocol_results' = EmptyDict
    /\ queue' = protocols
    /\ pc' = "all_next"
    /\ UNCHANGED <<callerRec, attrs, params, results, work, fb, warnings,
                   visits, outcome, returned>>

\* line 55-56: the next protocol of the loop is simulated
SimulateAllStep ==
    /\ pc = "all_next"
    /\ queue # <<>>
    /\ call' = [call EXCEPT !.protocol = Head(queue)]
    /\ simulate_body(call')
    /\ UNCHANGED <<callerRec, attrs, params, ncalls>>

\* line 58
SimulateAllReturn ==
    /\ pc = "all_next"
    /\ queue = <<>>
    /\ pc' = "idle"
    /\ outcome' = "ok"
    /\ returned' = DictMerge(returned, <<"all", call.feedback>> :> all_protocol_results)
    /\ UNCHANGED <<callerRec, attrs, params, results, all_protocol_results,
                   call, queue, work, fb, warnings, visits, ncalls>>

Next ==
    \/ Construct
    \/ \E p \in ProtocolIds, f \in BOOLEAN : Simulate(p, f)
    \/ FbIterate
    \/ FbCommit
    \/ FbReturn
    \/ \E f \in BOOLEAN : SimulateAll(f)
    \/ SimulateAllStep
    \/ SimulateAllReturn

Spec == Init /\ [][Next]_vars

\* ------------------------------------------------------------------------
\* Properties of Construct
\* ------------------------------------------------------------------------
constructed == pc \notin {"new", "failed"}

no_stress(rec) == "sigma0_c" \notin DOMAIN rec \/ rec.sigma0_c = None

\* the homeostatic stress the record resolves to when the caller gives none:
\* (Jc0/J0) sigma_c_roof(lambda0_c), over the merged record
derived_stress(rec) ==
    LET cp == merged_params(rec)
    IN  Some(Mul(Div(cp.Jc0, cp.J0), sigma_c_roof(cp, cp.lambda0_c)))

\* C1: once Construct has run, a record that supplies no homeostatic stress
\* (unset or None, the empty record included) has given an engine whose
\* resolved stress is (Jc0/J0) times the collagen stress response at
\* lambda0_c, and a supplied stress is kept unchanged.
C1_StressResolved ==
    pc # "new" =>
        /\ constructed
        /\ params.sigma0_c = IF no_stress(callerRec) THEN derived_stress(callerRec)
                             ELSE callerRec.sigma0_c

\* the part of C1 the code does keep: a supplied stress stays as given
C1_SuppliedKept ==
    /\ constructed
    /\ ~no_stress(callerRec)
    /\ params.sigma0_c = callerRec.sigma0_c

field(rec, key) == IF key \in DOMAIN rec THEN rec[key] ELSE default_params[key]

\* the records the specification's validation rejects
invalid_record(rec) ==
    \/ field(rec, "k_cminus") = 0 /\ field(rec, "k_cplus") # 0
    \/ field(rec, "k_eminus") = 0 /\ field(rec, "k_eplus") # 0
    \/ field(rec, "a") <= 0

\* C2: once Construct has run on a record with a zero degradation rate
\* beside a nonzero synthesis rate, or with a growth coefficient a <= 0,
\* it has failed and no engine instance exists.
C2_InvalidRejected ==
    (pc # "new" /\ invalid_record(callerRec)) => (pc = "failed" /\ attrs = {})

\* C3: on an engine that Construct built from a partial record, no
\* feedback-enabled run of simulate ends on a parameter field that the
\* resolved record does not hold.
C3_NoMissingField ==
    constructed => ~(call.op = "simulate" /\ call.feedback /\ outcome = "KeyError")

\* ------------------------------------------------------------------------
\* Properties of RunProtocol
\* ------------------------------------------------------------------------
\* a step in which the caller enters simulate
enters_simulate == ncalls' = ncalls + 1 /\ call'.op = "simulate"

\* C4: a call of simulate with an identifier outside constant, linear,
\* cyclic ends at once in a ValueError, with either feedback flag: no result
\* is stored or returned, no protocol series is kept and the feedback
\* solver is not entered.
C4_UnknownProtocolRejected ==
    [][(enters_simulate /\ call'.protocol \notin {"constant", "linear", "cyclic"})
        => /\ outcome' = "ValueError"
           /\ pc' = "idle"
           /\ results' = results
           /\ all_protocol_results' = all_protocol_results
           /\ returned' = returned
           /\ work' = EmptyDict
           /\ fb' = NoFb
           /\ visits' = visits
           /\ warnings' = warnings]_vars

C4_Witness ==
    /\ call = [op |-> "simulate", protocol |-> "ramp", feedback |-> TRUE]
    /\ outcome = "ValueError"
    /\ pc = "idle"
    /\ ncalls = 2
    /\ results # EmptyDict

\* ------------------------------------------------------------------------
\* Properties of RunAllProtocols
\* ------------------------------------------------------------------------
\* C5: the mapping simulate_all_protocols(f) returns has exactly the keys
\* constant, linear, cyclic, and its entry for a protocol is the result that
\* simulate(protocol, f) returns on the same engine, whichever of the two
\* calls came first.
C5_AllMatchesSingle ==
    \A f \in BOOLEAN :
        <<"all", f>> \in DOMAIN returned =>
            /\ DOMAIN returned[<<"all", f>>] = {"constant", "linear", "cyclic"}
            /\ \A p \in {"constant", "linear", "cyclic"} :
                   <<p, f>> \in DOMAIN returned =>
                       returned[<<"all", f>>][p] = returned[<<p, f>>]

C5_Witness ==
    /\ <<"all", TRUE>> \in DOMAIN returned
    /\ <<"cyclic", TRUE>> \in DOMAIN returned
    /\ call.op = "simulate"

\* ------------------------------------------------------------------------
\* Properties of a Simulation Result
\* ------------------------------------------------------------------------
volume_sum_holds(r) ==
    \A i \in DOMAIN r.time : r.J_total[i] = r.J_c[i] + r.J_e[i] + params.Jg0

\* C6: in every result simulate has returned, to the caller or into the
\* mapping of simulate_all_protocols, with or without feedback,
\* J_total[i] = J_c[i] + J_e[i] + Jg0 at every index, J_c being the series
\* the result itself holds.
C6_VolumeRatioSum ==
    /\ \A k \in DOMAIN returned :
           k[1] # "all" => volume_sum_holds(returned[k])
    /\ \A p \in DOMAIN all_protocol_results :
           volume_sum_holds(all_protocol_results[p])
    /\ results # EmptyDict => volume_sum_holds(results)

C6_Witness ==
    /\ <<"cyclic", FALSE>> \in DOMAIN returned
    /\ <<"cyclic", TRUE>> \in DOMAIN returned
    /\ \E i \in DOMAIN params.time :
           returned[<<"cyclic", TRUE>>].J_c[i] # returned[<<"cyclic", FALSE>>].J_c[i]

\* a feedback-enabled simulate has just returned, after a non-feedback run
\* of the same protocol
feedback_after_base ==
    /\ pc = "idle"
    /\ call.op = "simulate"
    /\ call.feedback
    /\ outcome = "ok"
    /\ <<call.protocol, FALSE>> \in DOMAIN returned

\* C7: in the result of a feedback-enabled simulate, the collagen stress is
\* the value the solver committed at each index (the base value at index 0)
\* and sigma_total[i] is that value plus sigma_e[i] and sigma_g[i] of the
\* non-feedback result of the same protocol.
C7_TotalStress ==
    feedback_after_base =>
        LET base == returned[<<call.protocol, FALSE>>]
        IN  \A i \in DOMAIN results.time :
                /\ results.sigma_c[i] = IF i = 0 THEN base.sigma_c[0]
                                        ELSE visits[i].sigma
                /\ results.sigma_total[i] =
                       results.sigma_c[i] + base.sigma_e[i] + base.sigma_g[i]

C7_Witness ==
    /\ feedback_after_base
    /\ \E i \in DOMAIN results.time :
           results.sigma_c[i] # returned[<<call.protocol, FALSE>>].sigma_c[i]

\* ------------------------------------------------------------------------
\* Properties of the feedback solver
\* ------------------------------------------------------------------------
in_solver == pc \in {"fb_iter", "fb_after"}

\* position of the solver: the index it is at, then the iterations done
\* there, the commit of the index ranking above all of its iterations
solver_rank == fb.i * (20 + 2) + (IF pc = "fb_after" THEN 20 + 1 ELSE fb.iter)

unmet(v) == ~v.converged

unmet_indices ==
    LET u == SelectSeq(visits, unmet)
    IN  [k \in 1..Len(u) |-> u[k].i]

\* the visits so far are the indices 1, 2, ... in order, each after at most
\* 20 iterations, all 20 of them when the tolerance was not met, and the
\* warnings are the indices whose loop did not meet it, once each
solver_log_ok ==
    /\ fb.iter <= 20
    /\ \A k \in 1..Len(visits) :
           /\ visits[k].i = k
           /\ visits[k].iter \in 1..20
           /\ ~visits[k].converged => visits[k].iter = 20
    /\ warnings = unmet_indices
    /\ in_solver => (fb.i = Len(visits) + 1 /\ fb.i < len(params.time))
    /\ pc = "fb_done" => Len(visits) = len(params.time) - 1

\* C8: the loop at an index runs at most 20 iterations and ends as
\* converged exactly when its last estimate met the tolerance; a warning is
\* logged once for each index that did not meet it and for no other; every
\* step of the solver moves it forward, so that it ends having visited each
\* of the indices 1..N-1 once.
C8_BoundedLoop ==
    [][/\ solver_log_ok'
       /\ (in_solver /\ in_solver') => solver_rank' > solver_rank
       /\ (pc = "fb_iter" /\ pc' = "fb_after") =>
              (fb'.converged <=>
                  /\ Abs(fb'.sigma_new - fb.sigma_prev) < params.epsilon
                  /\ Abs(fb'.J_new - fb.J_prev) < params.epsilon)]_vars

C8_Witness ==
    /\ pc = "fb_done"
    /\ Len(visits) = len(params.time) - 1
    /\ \A k \in 1..Len(visits) : visits[k].converged /\ visits[k].iter > 1
    /\ warnings = <<>>

result_keys ==
    {"time", "lambda", "sigma_c", "sigma_e", "sigma_g", "J_c", "J_e",
     "J_total", "sigma_total"}

\* a result that holds every series, each over the whole time grid
complete_result(r) ==
    /\ result_keys \subseteq DOMAIN r
    /\ \A k \in result_keys : DOMAIN r[k] = DOMAIN params.time

\* C9: a loop that used its 20 iterations without meeting the tolerance
\* raises nothing: the estimate of the last iteration is committed as
\* (sigma_c[i], J_c[i]) with a warning for i, the solver goes on to i + 1,
\* and the run returns a complete result holding the committed series.
C9_ExhaustedCommits ==
    [][/\ (pc = "fb_iter" /\ pc' = "fb_after" /\ ~fb'.converged) =>
              LET est == fb_estimate(params, work, fb)
              IN  /\ fb'.iter = 20
                  /\ fb'.sigma_new = est.sigma_new
                  /\ fb'.J_new = est.J_new
       /\ (pc = "fb_after" /\ ~fb.converged) =>
              /\ pc' \in {"fb_iter", "fb_done"}
              /\ outcome' = outcome
              /\ fb'.sigma_c_fb[fb.i] = fb.sigma_new
              /\ fb'.J_c_fb[fb.i] = fb.J_new
              /\ fb'.i = fb.i + 1
              /\ warnings' = Append(warnings, fb.i)
       /\ (pc = "fb_done" /\ warnings # <<>>) =>
              /\ complete_result(results')
              /\ results'.sigma_c = fb.sigma_c_fb
              /\ results'.J_c = fb.J_c_fb
              /\ call.op = "simulate" =>
                     /\ outcome' = "ok"
                     /\ returned'[<<call.protocol, TRUE>>] = results']_vars

C9_Witness ==
    /\ pc = "idle"
    /\ call.op = "simulate"
    /\ call.feedback
    /\ outcome = "ok"
    /\ Len(warnings) = len(params.time) - 1
    /\ \A k \in 1..Len(visits) :
           results.sigma_c[k] = visits[k].sigma /\ visits[k].sigma # 0

\* C10: on an engine whose feedback gain K_cplus is 0, the collagen stress
\* of a feedback-enabled run of the engine's own protocol stays, at every
\* index, within the tolerance (and the rounding of the arithmetic here, a
\* hundredth) of the collagen stress of the non-feedback run.
C10_ZeroGainReproducesBase ==
    (constructed /\ params.K_cplus = 0 /\ "protocol" \in DOMAIN params) =>
        LET p == params.protocol
        IN  (<<p, TRUE>> \in DOMAIN returned /\ <<p, FALSE>> \in DOMAIN returned) =>
                \A i \in DOMAIN params.time :
                    Abs(returned[<<p, TRUE>>].sigma_c[i]
                        - returned[<<p, FALSE>>].sigma_c[i])
                        <= params.epsilon + Fx(0, 100)

\* ------------------------------------------------------------------------
\* Properties of the turnover functions
\* ------------------------------------------------------------------------
\* a non-feedback simulate of a known protocol has ended, one way or another
base_run_ended ==
    /\ constructed
    /\ pc = "idle"
    /\ call.op = "simulate"
    /\ ~call.feedback
    /\ call.protocol \in {"constant", "linear", "cyclic"}

held_at(key, ref) ==
    /\ outcome = "ok"
    /\ \A i \in DOMAIN results.time : results[key][i] = ref

\* C11: when both rates of a constituent are zero, a non-feedback run of
\* any protocol completes and the volume fraction of that constituent is
\* its reference value (Jc0 for collagen, Je0 for elastin) at every index.
C11_NoTurnoverConstant ==
    base_run_ended =>
        /\ (params.k_cminus = 0 /\ params.k_cplus = 0) => held_at("J_c", params.Jc0)
        /\ (params.k_eminus = 0 /\ params.k_eplus = 0) => held_at("J_e", params.Je0)

\* the collagen half of C11, which the code keeps
C11_CollagenHeld ==
    /\ base_run_ended
    /\ params.k_cminus = 0 /\ params.k_cplus = 0
    /\ call.protocol = "cyclic"
    /\ held_at("J_c", params.Jc0)

\* C12: for every valid record, both rates of a constituent being zero
\* included, q(tau, tau) = 1 at every grid time and Q(0) = 1 for both
\* constituents, so that a non-feedback run completes with J_c[0] = Jc0 and
\* J_e[0] = Je0.
C12_NormalizedAtOrigin ==
    (base_run_ended /\ ~invalid_record(callerRec)) =>
        /\ \A i \in DOMAIN params.time :
               /\ q_c(params, params.time[i], params.time[i]) = Scale
               /\ q_e(params, params.time[i], params.time[i]) = Scale
        /\ outcome = "ok"
        /\ results.J_c[0] = params.Jc0
        /\ results.J_e[0] = params.Je0

\* C12 on a record with turnover in both constituents
C12_TurnoverNormalized ==
    /\ base_run_ended
    /\ params.k_cminus # 0 /\ params.k_eminus # 0
    /\ outcome = "ok"
    /\ results.J_c[0] = params.Jc0
    /\ results.J_e[0] = params.Je0

\* ------------------------------------------------------------------------
\* Properties of a failed run
\* ------------------------------------------------------------------------
\* a step in which a call on the engine ends in an exception
call_fails == pc # "new" /\ pc' = "idle" /\ outcome' # "ok"

\* C13: when a run fails, on an unknown identifier or on an exception in a
\* protocol or in the feedback solver, nothing is returned and self.results
\* stays the result stored before the call; a failure inside
\* simulate_all_protocols ends that call too, and the mapping of the engine
\* holds no entry for the protocol that failed.
C13_FailedRunStoresNothing ==
    [][call_fails =>
          /\ results' = results
          /\ returned' = returned
          /\ call'.op = "simulate_all" =>
                 call'.protocol \notin DOMAIN all_protocol_results']_vars

C13_Witness ==
    /\ pc = "idle"
    /\ call.op = "simulate_all"
    /\ call.feedback
    /\ outcome = "KeyError"
    /\ results # EmptyDict
    /\ call.protocol \notin DOMAIN all_protocol_results

\* ------------------------------------------------------------------------
\* Properties of the parameter record
\* ------------------------------------------------------------------------
\* C14: no step changes the record the caller passed to the constructor,
\* and once the engine is constructed no call of simulate or
\* simulate_all_protocols, with or without feedback, changes any field of
\* self.params, the time grid included.
C14_RecordsUntouched ==
    [][/\ callerRec' = callerRec
       /\ constructed => params' = params]_vars

C14_Witness ==
    /\ constructed
    /\ <<"all", TRUE>> \in DOMAIN returned
    /\ call.op = "simulate"
    /\ call.feedback
    /\ "time" \notin DOMAIN callerRec
    /\ params.time = linspace(callerRec.t_end, callerRec.n_points)

\* ------------------------------------------------------------------------
\* Properties of the feedback recomputation
\* ------------------------------------------------------------------------
\* C15: in every pass of the feedback loop the feedback factor is
\* 1 + K_cplus * (sigma_guess / sigma_h - 1), sigma_h being the homeostatic
\* stress sigma0_c of the resolved parameter record.
C15_FactorUsesHomeostaticStress ==
    pc = "fb_iter" =>
        feedback_factor(params, fb) =
            Scale + Mul(params.K_cplus,
                        Div(fb.sigma_prev, params.sigma0_c[1]) - Scale)

\* C16: while the feedback solver works on a run of protocol p, started by
\* simulate or by simulate_all_protocols, the stretch it uses at each grid
\* time t_j is the stretch of p at t_j, which is the stretch series of the
\* base result it was given, whatever 'protocol' the parameter record names.
C16_StretchOfRunProtocol ==
    (pc = "fb_iter" /\ "protocol" \in DOMAIN params) =>
        \A j \in 1..(len(params.time) - 1) :
            feedback_stretch(params, params.time[j]) = work["lambda"][j]

\* C16 where the record names the protocol that is run
C16_OwnProtocolStretch ==
    /\ pc = "fb_iter"
    /\ "protocol" \in DOMAIN params
    /\ call.protocol = "cyclic"
    /\ params.protocol = "cyclic"
    /\ \A j \in 1..(len(params.time) - 1) :
           feedback_stretch(params, params.time[j]) = work["lambda"][j]
    /\ \E j \in 1..(len(params.time) - 1) : work["lambda"][j] # params.lambda_roof

solver_active == pc \in {"fb_iter", "fb_after", "fb_done"}

\* the locals of the solver with every entry of the two series at an index
\* that is not yet committed replaced by another value
uncommitted_blurred(f) ==
    [f EXCEPT !.sigma_c_fb = [j \in DOMAIN f.sigma_c_fb |->
                                 IF j < f.i THEN f.sigma_c_fb[j] ELSE -Scale],
              !.J_c_fb = [j \in DOMAIN f.J_c_fb |->
                             IF j < f.i THEN f.J_c_fb[j] ELSE -Scale]]

\* C17: the solver starts from the base collagen stress at index 0 and
\* Jc0, moves through the indices upward one at a time, never changes a
\* value once it is committed, hands the committed series to the result,
\* and its estimate at index i depends on the series only at indices below
\* i (and on the guess at i).
C17_SequentialCommit ==
    [][/\ solver_active' =>
              /\ fb'.sigma_c_fb[0] = work'.sigma_c[0]
              /\ fb'.J_c_fb[0] = params.Jc0
       /\ (solver_active /\ solver_active') =>
              /\ fb'.i \in {fb.i, fb.i + 1}
              /\ \A j \in 0..(fb.i - 1) :
                     /\ fb'.sigma_c_fb[j] = fb.sigma_c_fb[j]
                     /\ fb'.J_c_fb[j] = fb.J_c_fb[j]
       /\ pc = "fb_done" =>
              /\ results'.sigma_c = fb.sigma_c_fb
              /\ results'.J_c = fb.J_c_fb
       /\ (pc = "fb_iter" /\ "protocol" \in DOMAIN params) =>
              fb_estimate(params, work, uncommitted_blurred(fb))
                  = fb_estimate(params, work, fb)]_vars

C17_Witness ==
    /\ pc = "fb_done"
    /\ fb.i = len(params.time)
    /\ fb.i > 2
    /\ fb.sigma_c_fb[0] = work.sigma_c[0]
    /\ \A k \in 1..Len(visits) :
           /\ visits[k].i = k
           /\ fb.sigma_c_fb[k] = visits[k].sigma
           /\ fb.J_c_fb[k] = visits[k].J

\* the series the feedback solver has no business with
untouched_keys == {"time", "lambda", "sigma_e", "J_e", "sigma_g"}

\* C18: the result of a feedback-enabled run has the keys of the
\* non-feedback result of the same protocol, and its time, stretch, elastin
\* stress, elastin volume fraction and matrix stress series are those of
\* the non-feedback result; only sigma_c, J_c and the two aggregates may
\* differ.
C18_OnlyCollagenReplaced ==
    \A p \in {"constant", "linear", "cyclic"} :
        (<<p, TRUE>> \in DOMAIN returned /\ <<p, FALSE>> \in DOMAIN returned) =>
            /\ DOMAIN returned[<<p, TRUE>>] = DOMAIN returned[<<p, FALSE>>]
            /\ \A k \in untouched_keys :
                   returned[<<p, TRUE>>][k] = returned[<<p, FALSE>>][k]

C18_Witness ==
    /\ <<"linear", TRUE>> \in DOMAIN returned
    /\ <<"linear", FALSE>> \in DOMAIN returned
    /\ returned[<<"linear", TRUE>>].sigma_c # returned[<<"linear", FALSE>>].sigma_c
    /\ returned[<<"linear", TRUE>>].J_total # returned[<<"linear", FALSE>>].J_total
    /\ returned[<<"linear", TRUE>>].sigma_e = returned[<<"linear", FALSE>>].sigma_e

\* ------------------------------------------------------------------------
\* Properties of the protocol formulas
\* ------------------------------------------------------------------------
\* the collagen and elastin stress of the linear protocol at grid index i
\* with each stress response taken at the stretch of the deposition time:
\* lambda(0) in the initial-mass term, lambda(tau) under the integral
linear_sigma_c_at_deposition(P, r, i) ==
    LET ti == P.time[i]
    IN  Mul(Mul(Div(P.Jc0, P.J0), sigma_c_roof(P, linear_stretch(P, 0))),
            q_c(P, 0, ti))
        + Mul(Div(P.j_cplus, r.J_c[i]),
              quad([tau \in quad_nodes(0, ti) |->
                       Mul(q_c(P, tau, ti), sigma_c_roof(P, linear_stretch(P, tau)))],
                   0, ti))

linear_sigma_e_at_deposition(P, r, i) ==
    LET ti == P.time[i]
    IN  Mul(Mul(Div(P.Je0, P.J0), sigma_e_roof(P, linear_stretch(P, 0))),
            q_e(P, 0, ti))
        + Mul(Div(P.j_eplus, r.J_e[i]),
              quad([tau \in quad_nodes(0, ti) |->
                       Mul(q_e(P, tau, ti), sigma_e_roof(P, linear_stretch(P, tau)))],
                   0, ti))

\* C19: in a result of the linear protocol the collagen and the elastin
\* stress at every grid time are, up to the rounding of the arithmetic here
\* (a hundredth), the initial-mass term at lambda(0) plus the history
\* integral of the stress response at lambda(tau) = lambda_roof*(1 + a*tau).
C19_LinearStretchAtDeposition ==
    <<"linear", FALSE>> \in DOMAIN returned =>
        LET r == returned[<<"linear", FALSE>>]
        IN  \A i \in DOMAIN params.time :
                /\ Abs(r.sigma_c[i] - linear_sigma_c_at_deposition(params, r, i))
                       <= Fx(0, 100)
                /\ Abs(r.sigma_e[i] - linear_sigma_e_at_deposition(params, r, i))
                       <= Fx(0, 100)

\* C19 where the stretch does not change in time (a = 0)
C19_FlatStretch ==
    /\ <<"linear", FALSE>> \in DOMAIN returned
    /\ params.a = 0
    /\ \A i \in DOMAIN params.time :
           Abs(returned[<<"linear", FALSE>>].sigma_c[i]
               - linear_sigma_c_at_deposition(params, returned[<<"linear", FALSE>>], i))
               <= Fx(0, 100)

\* the pieces of a constituent's stress formula, x being "c" (collagen) or
\* "e" (elastin)
roof_of(P, x, lambda_) ==
    IF x = "c" THEN sigma_c_roof(P, lambda_) ELSE sigma_e_roof(P, lambda_)

q_of(P, x, tau, t) == IF x = "c" THEN q_c(P, tau, t) ELSE q_e(P, tau, t)

G_of(P, x, t) == IF x = "c" THEN G_c(P, t) ELSE G_e(P, t)

reference_of(P, x) == IF x = "c" THEN P.Jc0 ELSE P.Je0

flux_of(P, x) == IF x = "c" THEN P.j_cplus ELSE P.j_eplus

lambda0_of(P, x) == IF x = "c" THEN P.lambda0_c ELSE P.lambda0_e

stress_of(r, x) == IF x = "c" THEN r.sigma_c ELSE r.sigma_e

\* the stretch at which protocol p takes the stress response of constituent
\* x for mass deposited at tau, seen from grid index i of result r
response_stretch(P, p, x, r, i, tau, lambda_tau) ==
    IF p = "cyclic"
    THEN natural_stretch(P, lambda0_of(P, x), r.lambda[i], lambda_tau,
                         G_of(P, x, tau), G_of(P, x, P.time[i]))
    ELSE r.lambda[i]

\* the initial-mass term and the history integral of protocol p
initial_mass_term(P, p, x, r, i) ==
    Mul(Mul(Div(reference_of(P, x), P.J0),
            roof_of(P, x, response_stretch(P, p, x, r, i, 0, P.lambda_roof))),
        q_of(P, x, 0, P.time[i]))

history_integral(P, p, x, r, i) ==
    quad([tau \in quad_nodes(0, P.time[i]) |->
             Mul(q_of(P, x, tau, P.time[i]),
                 roof_of(P, x, response_stretch(P, p, x, r, i, tau,
                                                cyclic_stretch(P, cyclic_omega, tau))))],
         0, P.time[i])

\* the stress minus its initial-mass term is flux / J_total times the
\* history integral, up to the rounding of the arithmetic here (a hundredth)
produced_over_total(P, p, x, r) ==
    \A i \in DOMAIN P.time :
        Abs(stress_of(r, x)[i] - initial_mass_term(P, p, x, r, i)
            - Mul(Div(flux_of(P, x), r.J_c[i] + r.J_e[i] + P.Jg0),
                  history_integral(P, p, x, r, i)))
            <= Fx(0, 100)

\* C20: in the non-feedback result of every protocol, for collagen and for
\* elastin, the continuously-produced-mass term of the stress at each grid
\* time is the deposition flux over J_total = J_c + J_e + Jg0, times the
\* history integral over [0, t].
C20_ProducedMassOverTotal ==
    \A p \in {"constant", "linear", "cyclic"} :
        <<p, FALSE>> \in DOMAIN returned =>
            \A x \in {"c", "e"} :
                produced_over_total(params, p, x, returned[<<p, FALSE>>])

\* C20 in the cyclic protocol, which does divide by J_total
C20_CyclicOverTotal ==
    /\ <<"cyclic", FALSE>> \in DOMAIN returned
    /\ \A x \in {"c", "e"} :
           produced_over_total(params, "cyclic", x, returned[<<"cyclic", FALSE>>])
    /\ \E i \in DOMAIN params.time :
           returned[<<"cyclic", FALSE>>].sigma_c[i]
               # initial_mass_term(params, "cyclic", "c", returned[<<"cyclic", FALSE>>], i)

\* ------------------------------------------------------------------------
\* Properties of the cyclic stretch
\* ------------------------------------------------------------------------
\* the cyclic frequency a parameter record holds
record_omega(P) == IF "omega" \in DOMAIN P THEN P.omega ELSE Pi

\* every stretch of the series lies between lambda_roof and lambda_roof (1 + a)
stretch_within_bounds(P, series) ==
    \A i \in DOMAIN series :
        /\ series[i] >= P.lambda_roof
        /\ series[i] <= Mul(P.lambda_roof, Scale + P.a)

\* C21: in the cyclic protocol the stretch at every grid time t is
\* lambda_roof (1 + a sin^2(omega t)) with omega the cyclic frequency of the
\* parameter record, in the result of the base run and in the stretch the
\* feedback solver recomputes, and for a > 0 every stretch value lies
\* between lambda_roof and lambda_roof (1 + a).
C21_StretchAtRecordFrequency ==
    /\ \A f \in BOOLEAN :
           <<"cyclic", f>> \in DOMAIN returned =>
               /\ \A i \in DOMAIN params.time :
                      returned[<<"cyclic", f>>]["lambda"][i]
                          = cyclic_stretch(params, record_omega(params), params.time[i])
               /\ params.a > 0 =>
                      stretch_within_bounds(params, returned[<<"cyclic", f>>]["lambda"])
    /\ (pc = "fb_iter" /\ call.protocol = "cyclic" /\ "protocol" \in DOMAIN params
            /\ params.protocol = "cyclic") =>
           \A j \in 1..(len(params.time) - 1) :
               feedback_stretch(params, params.time[j])
                   = cyclic_stretch(params, record_omega(params), params.time[j])

\* C21 for a > 0 where the record holds no frequency: the stretch series of
\* a cyclic run leaves lambda_roof and stays within the two bounds
C21_StretchWithinBounds ==
    /\ <<"cyclic", FALSE>> \in DOMAIN returned
    /\ "omega" \notin DOMAIN params
    /\ params.a > 0
    /\ stretch_within_bounds(params, returned[<<"cyclic", FALSE>>]["lambda"])
    /\ \E i \in DOMAIN params.time :
           returned[<<"cyclic", FALSE>>]["lambda"][i] > params.lambda_roof
    /\ \A i \in DOMAIN params.time :
           returned[<<"cyclic", FALSE>>]["lambda"][i]
               = cyclic_stretch(params, Pi, params.time[i])

====
